---- MODULE Spec2Model ----
(***************************************************************************)
(* GstSyncClient (gst-libs/gst/sync-server/sync-client.c).                 *)
(*                                                                         *)
(* Three threads act on one client object:                                 *)
(*   "ctl"    the control client's thread: sync_info_notify ->             *)
(*            update_sync_info;                                            *)
(*   "main"   the main loop: the bus watch bus_cb (gst_bus_add_watch);     *)
(*   "stream" the pipeline's streaming thread: posts messages, and runs    *)
(*            bus_cb synchronously for async-done (sync-message signal).   *)
(* The application thread calls start, stop and the final unref.           *)
(*                                                                         *)
(* Every step is one access to shared state: a lock operation, an atomic   *)
(* read or write of seek_state, or one call into the pipeline.  Times are  *)
(* in milliseconds.                                                        *)
(***************************************************************************)
EXTENDS Integers, Sequences, FiniteSets, TLC

VARIABLES
    info,          \* self->info: NoInfo or a GstSyncServerInfo
    info_lock,     \* self->info_lock: "free" or the thread holding it
    synchronised,  \* self->synchronised
    seek_state,    \* self->seek_state (atomic)
    handles,       \* which of self->pipeline, self->clock, self->client are held
    chan,          \* the control client: "none", "listening", "failed", "stopped"
    disposed,      \* gst_sync_client_dispose has run
    pc,            \* position of each thread
    usiArg,        \* update_sync_info's info argument
    is_live,       \* update_pipeline's local: "unset", "TRUE" or "FALSE"
    hmsg,          \* the message each thread's bus_cb is handling
    hnow,          \* bus_cb's local now (state-changed case)
    hpos,          \* bus_cb's local pos (async-done case), per thread
    pipe,          \* the pipeline: uri, latency, base time, states, pending preroll
    bus,           \* the pipeline's bus: messages queued for the bus watch
    clockTime,     \* the reference clock
    genRec,        \* what the current generation (run of update_pipeline) has seen
    calls          \* pipeline requests of the running update_sync_info / update_pipeline

vars == <<info, info_lock, synchronised, seek_state, handles, chan, disposed, pc,
          usiArg, is_live, hmsg, hnow, hpos, pipe, bus, clockTime, genRec, calls>>

----------------------------------------------------------------------------
(* Program constants *)

NEED_SEEK == 0
IN_SEEK == 1
DONE_SEEK == 2

\* DEFAULT_SEEK_TOLERANCE (50 * GST_MSECOND), in milliseconds
DEFAULT_SEEK_TOLERANCE == 50

(* Bounds of the model *)

\* messages the bus holds
MaxBus == 3
\* width of GstClockTime in the model (guint64 in the code)
GstClockTimeBits == 16

GstClockTimeModulus == 2 ^ GstClockTimeBits

Threads == {"ctl", "main", "stream"}

NoInfo == [uri |-> "", base_time |-> 0, latency |-> 0]
NoTime == -1
NoMsg == [type |-> "none", own |-> FALSE, old |-> "", new |-> "",
          sync |-> FALSE, g |-> "cur"]

\* The descriptors the control channel delivers: the second differs from the
\* first in latency only, the third in uri, the fourth in base_time.
Descriptors ==
    { [uri |-> "a", base_time |-> 1900, latency |-> 10],
      [uri |-> "a", base_time |-> 1900, latency |-> 20],
      [uri |-> "b", base_time |-> 1900, latency |-> 10],
      [uri |-> "a", base_time |-> 2000, latency |-> 10] }

\* Readings of the reference clock, in increasing order.
ClockTimes == <<1920, 2050>>

\* Positions gst_element_query_position reports.
Positions == {205}

----------------------------------------------------------------------------
(* Helpers *)

\* guint64 subtraction and addition (GstClockTime)
U64Sub(a, b) == (a - b + GstClockTimeModulus) % GstClockTimeModulus
U64Add(a, b) == (a + b) % GstClockTimeModulus

\* The current generation: how the PAUSED request classified the source; how
\* many seek requests, direct base-time writes (drift within tolerance),
\* fallback base-time writes (seek rejected) and base-time writes of the
\* async-done case it has seen; and, for the state-changed message the
\* pipeline posted in this generation, the drift now - base_time the handler
\* met ("le" or "gt" the tolerance, as integers), what it did ("direct",
\* "seek", "rejected"; "sought" once the async-done of its seek is handled);
\* base is the base_time of the descriptor the generation applies.
NewGenRec ==
    [kind |-> "none", seeks |-> 0, directs |-> 0, fallbacks |-> 0,
     adWrites |-> 0, drift |-> "none", own |-> "none",
     base |-> NoTime]

\* Messages on the bus.  own: GST_MESSAGE_SRC is self->pipeline; g: "cur" when
\* the pipeline posted the message in the current generation, "old" when in
\* an earlier one.
StateChangedMsg(own, old, new) ==
    [type |-> "state-changed", own |-> own, old |-> old, new |-> new,
     sync |-> FALSE, g |-> "cur"]
AsyncDoneMsg ==
    [type |-> "async-done", own |-> TRUE, old |-> "", new |-> "",
     sync |-> FALSE, g |-> "cur"]

\* a message once a new generation has begun
Aged(m) == IF m.type \in {"state-changed", "async-done"}
           THEN [m EXCEPT !.g = "old"] ELSE m

Room(n) == Len(bus) + n <= MaxBus

Inc(n) == IF n < 2 THEN n + 1 ELSE n

----------------------------------------------------------------------------
(* The pipeline (GstPipeline), as far as the client drives and observes it *)

NewPipe ==
    [uri |-> "", latency |-> 0, base_time |-> NoTime, cur |-> "NULL",
     target |-> "NULL", pending |-> "none", live |-> FALSE, seekPos |-> NoTime]

\* gst_element_set_state (pipeline, GST_STATE_PAUSED): the possible returns,
\* each with the pipeline after the call and the messages it posted.
PausedOutcomes(p) ==
    IF p.cur = "NULL" /\ p.pending = "none" THEN
        { [r |-> "FAILURE", pipe |-> p, msgs |-> <<>>],
          [r |-> "NO_PREROLL",
           pipe |-> [p EXCEPT !.cur = "PAUSED", !.target = "PAUSED", !.live = TRUE],
           msgs |-> <<StateChangedMsg(TRUE, "READY", "PAUSED")>>],
          [r |-> "ASYNC",
           pipe |-> [p EXCEPT !.pending = "preroll", !.target = "PAUSED",
                               !.live = FALSE],
           msgs |-> <<>>] }
    ELSE IF p.pending # "none" THEN
        { [r |-> "ASYNC", pipe |-> [p EXCEPT !.target = "PAUSED"], msgs |-> <<>>] }
    ELSE IF p.cur = "PLAYING" THEN
        { [r |-> IF p.live THEN "NO_PREROLL" ELSE "SUCCESS",
           pipe |-> [p EXCEPT !.cur = "PAUSED", !.target = "PAUSED"],
           msgs |-> <<StateChangedMsg(TRUE, "PLAYING", "PAUSED")>>] }
    ELSE
        { [r |-> IF p.live THEN "NO_PREROLL" ELSE "SUCCESS",
           pipe |-> [p EXCEPT !.target = "PAUSED"], msgs |-> <<>>] }

\* gst_element_set_state (pipeline, GST_STATE_PLAYING).  A prerolled pipeline
\* changes state inside the call and posts state-changed from it; a pipeline
\* still prerolling goes on to PLAYING when the preroll completes.
PlayingOutcomes(p) ==
    IF p.pending # "none" THEN
        { [pipe |-> [p EXCEPT !.target = "PLAYING"], msgs |-> <<>>] }
    ELSE IF p.cur = "PAUSED" THEN
        { [pipe |-> [p EXCEPT !.cur = "PLAYING", !.target = "PLAYING"],
           msgs |-> <<StateChangedMsg(TRUE, "PAUSED", "PLAYING")>>] }
    ELSE IF p.cur = "NULL" THEN
        { [pipe |-> p, msgs |-> <<>>],
          [pipe |-> [p EXCEPT !.pending = "preroll", !.target = "PLAYING",
                               !.live = FALSE],
           msgs |-> <<>>] }
    ELSE
        { [pipe |-> p, msgs |-> <<>>] }

\* gst_element_set_state (pipeline, GST_STATE_NULL): the pipeline after it
\* (base_time is the value the client last set, which NULL does not touch)
NullPipe(p) ==
    [p EXCEPT !.cur = "NULL", !.target = "NULL", !.pending = "none",
              !.live = FALSE, !.seekPos = NoTime]

\* set_base_time: start time cleared, base time set
set_base_time(p, base_time) == [p EXCEPT !.base_time = base_time]

----------------------------------------------------------------------------
(* Construction *)

\* gst_sync_client_init and the construct properties of gst_sync_client_new
Init ==
    /\ info = NoInfo
    /\ info_lock = "free"
    /\ synchronised = FALSE
    /\ seek_state = NEED_SEEK
    /\ handles = [pipeline |-> TRUE, clock |-> FALSE, client |-> FALSE]
    /\ chan = "none"
    /\ disposed = FALSE
    /\ pc = [t \in Threads |-> "idle"]
    /\ usiArg = NoInfo
    /\ is_live = "unset"
    /\ hmsg = [t \in Threads |-> NoMsg]
    /\ hnow = NoTime
    /\ hpos = [t \in Threads |-> NoTime]
    /\ pipe = NewPipe
    /\ bus = <<>>
    /\ clockTime = 1
    /\ genRec = NewGenRec
    /\ calls = <<>>

----------------------------------------------------------------------------
(* The application thread: start, stop, the final unref *)

\* The control client's answer to the "start" and "stop" signals.
ControlClientStart(c, ok) == IF ok THEN "listening" ELSE "failed"
ControlClientStop(c) == IF c = "listening" THEN "stopped" ELSE c

\* gst_sync_client_start
Start ==
    /\ ~disposed
    /\ chan = "none"
    /\ \E ok \in BOOLEAN : chan' = ControlClientStart(chan, ok)
    /\ handles' = [handles EXCEPT !.client = TRUE]
    /\ UNCHANGED <<info, info_lock, synchronised, seek_state, disposed, pc, usiArg,
                   is_live, hmsg, hnow, hpos, pipe, bus, clockTime, genRec, calls>>

\* gst_sync_client_stop: emits "stop" on self->client and nothing else
StopEffect ==
    /\ chan' = IF handles.client THEN ControlClientStop(chan) ELSE chan
    /\ UNCHANGED <<info, info_lock, synchronised, seek_state, handles, disposed, pc,
                   usiArg, is_live, hmsg, hnow, hpos, pipe, bus, clockTime,
                   genRec, calls>>

Stop ==
    /\ ~disposed
    /\ StopEffect

\* gst_sync_client_dispose, run by the final unref once no callback is running
Dispose ==
    /\ ~disposed
    /\ chan # "listening"
    /\ \A t \in Threads : pc[t] = "idle"
    /\ disposed' = TRUE
    /\ handles' = [pipeline |-> FALSE, clock |-> FALSE, client |-> FALSE]
    /\ info' = NoInfo
    /\ UNCHANGED <<info_lock, synchronised, seek_state, chan, pc, usiArg, is_live,
                   hmsg, hnow, hpos, pipe, bus, clockTime, genRec, calls>>

----------------------------------------------------------------------------
(* update_sync_info, on the control client's thread *)

\* sync_info_notify: the control client delivers a descriptor
SyncInfoNotify(d) ==
    /\ ~disposed
    /\ chan = "listening"
    /\ pc["ctl"] = "idle"
    /\ usiArg' = d
    /\ pc' = [pc EXCEPT !["ctl"] = "usi_lock"]
    /\ UNCHANGED <<info, info_lock, synchronised, seek_state, handles, chan, disposed,
                   is_live, hmsg, hnow, hpos, pipe, bus, clockTime, genRec, calls>>

\* a comparison of every field, latency included
InfoChangedAnyField(old, new) == old # new

\* the test of update_sync_info: uri or base_time changed
InfoChanged(old, new) == old.uri # new.uri \/ old.base_time # new.base_time

\* a re-application that replaces the descriptor without the NULL request
UsiBranchNoNull(stored, new) ==
    IF stored # NoInfo /\ InfoChanged(stored, new) THEN "usi_replace" ELSE "unlock"

\* where update_sync_info goes once it holds the lock: the first descriptor
\* and an unchanged one go to the unlock, a changed one to the NULL request
UsiBranch(stored, new) ==
    IF stored # NoInfo /\ InfoChanged(stored, new) THEN "usi_null" ELSE "unlock"

\* update_sync_info up to its first pipeline request: takes info_lock; the
\* first descriptor is stored and the clock created; an unchanged descriptor
\* is dropped; a changed one goes on to the NULL request.
UsiLock ==
    /\ pc["ctl"] = "usi_lock"
    /\ info_lock = "free"
    /\ info_lock' = "ctl"
    /\ calls' = <<>>
    /\ IF info = NoInfo
       THEN /\ info' = usiArg
            /\ handles' = [handles EXCEPT !.clock = TRUE]
       ELSE UNCHANGED <<info, handles>>
    /\ pc' = [pc EXCEPT !["ctl"] = UsiBranch(info, usiArg)]
    /\ UNCHANGED <<synchronised, seek_state, chan, disposed, usiArg, is_live, hmsg, hnow, hpos, pipe, bus, clockTime, genRec>>

\* gst_element_set_state (pipeline, GST_STATE_NULL): waits for the streaming
\* thread to leave the pipeline; the pipeline posts its way down to NULL.
UsiNull ==
    /\ pc["ctl"] = "usi_null"
    /\ pc["stream"] = "idle"
    /\ Room(1)
    /\ bus' = IF pipe.cur = "NULL" THEN bus
              ELSE Append(bus, StateChangedMsg(TRUE, "PAUSED", "READY"))
    /\ pipe' = NullPipe(pipe)
    /\ calls' = Append(calls, "NULL")
    /\ pc' = [pc EXCEPT !["ctl"] = "usi_replace"]
    /\ UNCHANGED <<info, info_lock, synchronised, seek_state, handles, chan, disposed,
                   usiArg, is_live, hmsg, hnow, hpos, clockTime, genRec>>

\* the NULL request returns (the pipeline in NULL has flushed its bus); the
\* stored descriptor is freed and replaced; update_pipeline is called
UsiReplace ==
    /\ pc["ctl"] = "usi_replace"
    /\ bus' = <<>>
    /\ info' = usiArg
    /\ calls' = Append(calls, "replace")
    /\ pc' = [pc EXCEPT !["ctl"] = "up_seturi"]
    /\ UNCHANGED <<info_lock, synchronised, seek_state, handles, chan, disposed,
                   usiArg, is_live, hmsg, hnow, hpos, pipe, clockTime, genRec>>

\* g_mutex_unlock (&self->info_lock) at the end of update_sync_info, of the
\* clock-statistics case and of the state-changed case
Unlock(t) ==
    /\ pc[t] = "unlock"
    /\ info_lock' = "free"
    /\ pc' = [pc EXCEPT ![t] = "idle"]
    /\ calls' = <<>>
    /\ usiArg' = IF t = "ctl" THEN NoInfo ELSE usiArg
    /\ hmsg' = [hmsg EXCEPT ![t] = NoMsg]
    /\ hnow' = IF t = "main" THEN NoTime ELSE hnow
    /\ UNCHANGED <<info, synchronised, seek_state, handles, chan, disposed,
                   is_live, hpos, pipe, bus, clockTime, genRec>>

----------------------------------------------------------------------------
(* update_pipeline, called with info_lock held *)

\* uri and latency are set on the pipeline; a new generation begins
UpSetUri(t) ==
    /\ pc[t] = "up_seturi"
    /\ pipe' = [pipe EXCEPT !.uri = info.uri, !.latency = info.latency]
    /\ genRec' = [NewGenRec EXCEPT !.base = info.base_time]
    /\ bus' = [i \in 1..Len(bus) |-> Aged(bus[i])]
    /\ hmsg' = [x \in Threads |-> Aged(hmsg[x])]
    /\ calls' = Append(calls, "uri")
    /\ pc' = [pc EXCEPT ![t] = "up_paused"]
    /\ UNCHANGED <<info, info_lock, synchronised, seek_state, handles, chan, disposed,
                   usiArg, is_live, hnow, hpos, clockTime>>

\* the switch on the return of the PAUSED request: is_live is assigned in the
\* NO_PREROLL and default cases, and left unassigned in the FAILURE case
IsLiveAfter(r, before) ==
    CASE r = "FAILURE" -> before
      [] r = "NO_PREROLL" -> "TRUE"
      [] OTHER -> "FALSE"

\* gst_element_set_state (pipeline, GST_STATE_PAUSED) and the switch on it
UpPaused(t) ==
    /\ pc[t] = "up_paused"
    /\ \E o \in PausedOutcomes(pipe) :
         /\ Room(Len(o.msgs))
         /\ pipe' = o.pipe
         /\ bus' = bus \o o.msgs
         /\ is_live' = IsLiveAfter(o.r, "unset")
         /\ genRec' = [genRec EXCEPT !.kind =
                          CASE o.r = "FAILURE" -> "failed"
                            [] o.r = "NO_PREROLL" -> "live"
                            [] OTHER -> "seekable"]
    /\ calls' = Append(calls, "PAUSED")
    /\ pc' = [pc EXCEPT ![t] = "up_classify"]
    /\ UNCHANGED <<info, info_lock, synchronised, seek_state, handles, chan, disposed,
                   usiArg, hmsg, hnow, hpos, clockTime>>

\* the value written to seek_state; an unassigned is_live is read as either
SeekStateFor(live) == IF live THEN DONE_SEEK ELSE NEED_SEEK

\* g_atomic_int_set (&self->seek_state, is_live ? DONE_SEEK : NEED_SEEK)
UpClassify(t) ==
    /\ pc[t] = "up_classify"
    /\ \E live \in (IF is_live = "unset" THEN BOOLEAN ELSE {is_live = "TRUE"}) :
         seek_state' = SeekStateFor(live)
    /\ calls' = Append(calls, "classify")
    /\ pc' = [pc EXCEPT ![t] = "up_playing"]
    /\ UNCHANGED <<info, info_lock, synchronised, handles, chan, disposed, usiArg,
                   is_live, hmsg, hnow, hpos, pipe, bus, clockTime, genRec>>

\* gst_element_set_state (pipeline, GST_STATE_PLAYING), whatever the PAUSED
\* request returned
UpPlaying(t) ==
    /\ pc[t] = "up_playing"
    /\ \E o \in PlayingOutcomes(pipe) :
         /\ Room(Len(o.msgs))
         /\ pipe' = o.pipe
         /\ bus' = bus \o o.msgs
    /\ calls' = Append(calls, "PLAYING")
    /\ is_live' = "unset"
    /\ pc' = [pc EXCEPT ![t] = "unlock"]
    /\ UNCHANGED <<info, info_lock, synchronised, seek_state, handles, chan, disposed,
                   usiArg, hmsg, hnow, hpos, clockTime, genRec>>

----------------------------------------------------------------------------
(* bus_cb *)

\* a statistics case that reads the message whatever self->synchronised is
MainElementUnguarded(b) ==
    /\ ~disposed
    /\ handles.clock
    /\ pc["main"] = "idle"
    /\ synchronised' = b
    /\ pc' = [pc EXCEPT !["main"] = IF b THEN "el_wait" ELSE "idle"]
    /\ UNCHANGED <<info, info_lock, seek_state, handles, chan, disposed, usiArg,
                   is_live, hmsg, hnow, hpos, pipe, bus, clockTime, genRec, calls>>

\* case GST_MESSAGE_ELEMENT, from the bus watch: the clock posts
\* gst-netclock-statistics with synchronised = b, and the bus watch handles
\* it: nothing when self->synchronised is set already; else the field is
\* read into self->synchronised, and a true one goes on to the wait.
MainElement(b) ==
    /\ ~disposed
    /\ handles.clock
    /\ pc["main"] = "idle"
    /\ IF synchronised
       THEN UNCHANGED <<synchronised, pc>>
       ELSE /\ synchronised' = b
            /\ pc' = [pc EXCEPT !["main"] = IF b THEN "el_wait" ELSE "idle"]
    /\ UNCHANGED <<info, info_lock, seek_state, handles, chan, disposed, usiArg,
                   is_live, hmsg, hnow, hpos, pipe, bus, clockTime, genRec, calls>>

\* gst_clock_wait_for_sync (self->clock, 10 * GST_SECOND) returns ok; on a
\* timeout self->synchronised is reset
ElWait ==
    /\ pc["main"] = "el_wait"
    /\ \E ok \in BOOLEAN :
         /\ synchronised' = ok
         /\ pc' = [pc EXCEPT !["main"] = IF ok THEN "el_lock" ELSE "idle"]
    /\ UNCHANGED <<info, info_lock, seek_state, handles, chan, disposed, usiArg,
                   is_live, hmsg, hnow, hpos, pipe, bus, clockTime, genRec, calls>>

\* g_mutex_lock before update_pipeline in the statistics case
ElLock ==
    /\ pc["main"] = "el_lock"
    /\ info_lock = "free"
    /\ info_lock' = "main"
    /\ calls' = <<>>
    /\ pc' = [pc EXCEPT !["main"] = "up_seturi"]
    /\ UNCHANGED <<info, synchronised, seek_state, handles, chan, disposed, usiArg,
                   is_live, hmsg, hnow, hpos, pipe, bus, clockTime, genRec>>

\* the tests of the state-changed case: seek_state is NEED_SEEK, the message
\* is the pipeline's, and not (old_state != PAUSED && new_state != PLAYING)
StateChangedPasses(m, ss) ==
    /\ ss = NEED_SEEK
    /\ m.own
    /\ ~(m.old # "PAUSED" /\ m.new # "PLAYING")

\* case GST_MESSAGE_STATE_CHANGED, from the bus watch: the tests
MainStateChanged ==
    /\ ~disposed
    /\ pc["main"] = "idle"
    /\ bus # <<>>
    /\ Head(bus).type = "state-changed"
    /\ bus' = Tail(bus)
    /\ IF StateChangedPasses(Head(bus), seek_state)
       THEN /\ pc' = [pc EXCEPT !["main"] = "sc_now"]
            /\ hmsg' = [hmsg EXCEPT !["main"] = Head(bus)]
       ELSE UNCHANGED <<pc, hmsg>>
    /\ UNCHANGED <<info, info_lock, synchronised, seek_state, handles, chan, disposed,
                   usiArg, is_live, hnow, hpos, pipe, clockTime, genRec,
                   calls>>

\* now = gst_clock_get_time; g_atomic_int_set (&self->seek_state, IN_SEEK)
ScNow ==
    /\ pc["main"] = "sc_now"
    /\ hnow' = ClockTimes[clockTime]
    /\ seek_state' = IN_SEEK
    /\ pc' = [pc EXCEPT !["main"] = "sc_lock"]
    /\ UNCHANGED <<info, info_lock, synchronised, handles, chan, disposed, usiArg,
                   is_live, hmsg, hpos, pipe, bus, clockTime, genRec,
                   calls>>

\* g_mutex_lock (&self->info_lock) in the state-changed case
ScLock ==
    /\ pc["main"] = "sc_lock"
    /\ info_lock = "free"
    /\ info_lock' = "main"
    /\ pc' = [pc EXCEPT !["main"] = "sc_decide"]
    /\ UNCHANGED <<info, synchronised, seek_state, handles, chan, disposed, usiArg,
                   is_live, hmsg, hnow, hpos, pipe, bus, clockTime, genRec, calls>>

\* the drift now - base_time as a number, against the tolerance
DriftClass(now, base_time) ==
    IF now - base_time > DEFAULT_SEEK_TOLERANCE THEN "gt" ELSE "le"

\* now - self->info->base_time > DEFAULT_SEEK_TOLERANCE
NeedsSeek(now, base_time) == U64Sub(now, base_time) > DEFAULT_SEEK_TOLERANCE

\* the position of the seek: now - base_time + DEFAULT_SEEK_TOLERANCE
SeekPosition(now, base_time) ==
    U64Add(U64Sub(now, base_time), DEFAULT_SEEK_TOLERANCE)

\* the decision under the lock: an accurate flushing seek (accepted: the
\* pipeline flushes, waiting for the streaming thread, and prerolls again;
\* or rejected), or the base time set directly and DONE_SEEK
ScDecide ==
    /\ pc["main"] = "sc_decide"
    /\ IF NeedsSeek(hnow, info.base_time)
       THEN \E accepted \in BOOLEAN :
              /\ accepted => pipe.cur # "NULL" /\ pc["stream"] = "idle"
              /\ genRec' = IF hmsg["main"].g = "cur"
                            THEN [genRec EXCEPT
                                    !.seeks = Inc(@),
                                    !.drift = DriftClass(hnow, info.base_time),
                                    !.own = IF accepted THEN "seek" ELSE "rejected"]
                            ELSE [genRec EXCEPT !.seeks = Inc(@)]
              /\ pipe' = IF accepted
                         THEN [pipe EXCEPT !.pending = "seek", !.cur = "PAUSED",
                                           !.target = IF pipe.pending = "none"
                                                      THEN pipe.cur ELSE pipe.target,
                                           !.seekPos =
                                               SeekPosition(hnow, info.base_time)]
                         ELSE pipe
              /\ pc' = [pc EXCEPT !["main"] =
                          IF accepted THEN "unlock" ELSE "sc_fallback"]
              /\ UNCHANGED seek_state
       ELSE /\ pipe' = set_base_time(pipe, info.base_time)
            /\ seek_state' = DONE_SEEK
            /\ genRec' = IF hmsg["main"].g = "cur"
                          THEN [genRec EXCEPT
                                  !.directs = Inc(@),
                                  !.drift = DriftClass(hnow, info.base_time),
                                  !.own = "direct"]
                          ELSE [genRec EXCEPT !.directs = Inc(@)]
            /\ pc' = [pc EXCEPT !["main"] = "unlock"]
    /\ UNCHANGED <<info, info_lock, synchronised, handles, chan, disposed, usiArg,
                   is_live, hmsg, hnow, hpos, bus, clockTime, calls>>

\* a fallback that sets the base time and leaves seek_state as it is
ScFallbackKeepsState ==
    /\ pc["main"] = "sc_fallback"
    /\ pipe' = set_base_time(pipe, info.base_time)
    /\ seek_state' = seek_state
    /\ genRec' = [genRec EXCEPT !.fallbacks = 1]
    /\ pc' = [pc EXCEPT !["main"] = "unlock"]
    /\ UNCHANGED <<info, info_lock, synchronised, handles, chan, disposed, usiArg,
                   is_live, hmsg, hnow, hpos, bus, clockTime, calls>>

\* the seek was not accepted: set_base_time and DONE_SEEK
ScFallback ==
    /\ pc["main"] = "sc_fallback"
    /\ pipe' = set_base_time(pipe, info.base_time)
    /\ seek_state' = DONE_SEEK
    /\ genRec' = [genRec EXCEPT !.fallbacks = 1]
    /\ pc' = [pc EXCEPT !["main"] = "unlock"]
    /\ UNCHANGED <<info, info_lock, synchronised, handles, chan, disposed, usiArg,
                   is_live, hmsg, hnow, hpos, bus, clockTime, calls>>

\* the test of the async-done case: seek_state is IN_SEEK
AsyncDonePasses(ss) == ss = IN_SEEK

\* case GST_MESSAGE_ASYNC_DONE, from the bus watch: the test
MainAsyncDone ==
    /\ ~disposed
    /\ pc["main"] = "idle"
    /\ bus # <<>>
    /\ Head(bus).type = "async-done"
    /\ bus' = Tail(bus)
    /\ IF AsyncDonePasses(seek_state)
       THEN /\ pc' = [pc EXCEPT !["main"] = "ad_query"]
            /\ hmsg' = [hmsg EXCEPT !["main"] = Head(bus)]
       ELSE UNCHANGED <<pc, hmsg>>
    /\ UNCHANGED <<info, info_lock, synchronised, seek_state, handles, chan, disposed,
                   usiArg, is_live, hnow, hpos, pipe, clockTime, genRec,
                   calls>>

\* gst_element_query_position: a position, or NoTime when the query fails
AdQuery(t) ==
    /\ pc[t] = "ad_query"
    /\ \E p \in Positions \cup {NoTime} :
         /\ p # NoTime => pipe.cur # "NULL"
         /\ hpos' = [hpos EXCEPT ![t] = p]
         /\ pc' = [pc EXCEPT ![t] = IF p = NoTime THEN "ad_write" ELSE "ad_lock"]
    /\ UNCHANGED <<info, info_lock, synchronised, seek_state, handles, chan, disposed,
                   usiArg, is_live, hmsg, hnow, pipe, bus, clockTime, genRec, calls>>

\* the base time after the seek: self->info->base_time + pos
BaseTimeAfterSeek(base_time, pos) == U64Add(base_time, pos)

\* g_mutex_lock; set_base_time (self, self->info->base_time + pos);
\* g_mutex_unlock
AdSetBaseTime(t) ==
    /\ pc[t] = "ad_lock"
    /\ info_lock = "free"
    /\ pipe' = set_base_time(pipe, BaseTimeAfterSeek(info.base_time, hpos[t]))
    /\ genRec' = [genRec EXCEPT !.adWrites = 1]
    /\ pc' = [pc EXCEPT ![t] = "ad_write"]
    /\ UNCHANGED <<info, info_lock, synchronised, seek_state, handles, chan, disposed,
                   usiArg, is_live, hmsg, hnow, hpos, bus, clockTime, calls>>

\* a handler that writes DONE_SEEK only when the position query succeeded
AdWriteIfPosition(t) ==
    /\ pc[t] = "ad_write"
    /\ seek_state' = IF hpos[t] = NoTime THEN seek_state ELSE DONE_SEEK
    /\ hpos' = IF t = "stream" THEN hpos ELSE [hpos EXCEPT ![t] = NoTime]
    /\ pc' = [pc EXCEPT ![t] = IF t = "stream" THEN "ad_post" ELSE "idle"]
    /\ hmsg' = IF t = "stream" THEN hmsg ELSE [hmsg EXCEPT ![t] = NoMsg]
    /\ UNCHANGED <<info, info_lock, synchronised, handles, chan, disposed, usiArg,
                   is_live, hnow, pipe, bus, clockTime, genRec, calls>>

\* g_atomic_int_set (&self->seek_state, DONE_SEEK), position or not
AdWrite(t) ==
    /\ pc[t] = "ad_write"
    /\ seek_state' = DONE_SEEK
    /\ hpos' = IF t = "stream" THEN hpos ELSE [hpos EXCEPT ![t] = NoTime]
    /\ pc' = [pc EXCEPT ![t] = IF t = "stream" THEN "ad_post" ELSE "idle"]
    /\ hmsg' = IF t = "stream" THEN hmsg ELSE [hmsg EXCEPT ![t] = NoMsg]
    /\ UNCHANGED <<info, info_lock, synchronised, handles, chan, disposed, usiArg,
                   is_live, hnow, pipe, bus, clockTime, genRec, calls>>

\* case GST_MESSAGE_EOS, from the bus watch: the playing pipeline posts its
\* end of stream, and the bus watch sets the pipeline to NULL (the request
\* waits for the streaming thread; the pipeline in NULL flushes its bus)
MainEos ==
    /\ ~disposed
    /\ pc["main"] = "idle"
    /\ bus = <<>>
    /\ pipe.cur = "PLAYING"
    /\ pipe.pending = "none"
    /\ pc["stream"] = "idle"
    /\ pipe' = NullPipe(pipe)
    /\ UNCHANGED <<info, info_lock, synchronised, seek_state, handles, chan, disposed,
                   pc, usiArg, is_live, hmsg, hnow, hpos, bus, clockTime, genRec, calls>>

----------------------------------------------------------------------------
(* The streaming thread and the reference clock *)

\* The pending preroll (after the PAUSED request, or after the flush of a
\* seek) completes: the pipeline reaches PAUSED and posts async-done, which
\* the sync-message signal hands to bus_cb on this thread before it is queued.
StreamAsyncDone ==
    /\ ~disposed
    /\ pc["stream"] = "idle"
    /\ pipe.pending # "none"
    /\ Room(1)
    /\ bus' = IF pipe.pending = "preroll"
              THEN Append(bus, StateChangedMsg(TRUE, "READY", "PAUSED"))
              ELSE bus
    /\ pipe' = [pipe EXCEPT !.cur = "PAUSED"]
    /\ hmsg' = [hmsg EXCEPT !["stream"] = AsyncDoneMsg]
    /\ pc' = [pc EXCEPT !["stream"] =
                IF AsyncDonePasses(seek_state) THEN "ad_query" ELSE "ad_post"]
    /\ genRec' = IF pipe.pending = "seek" /\ genRec.own = "seek"
                  THEN [genRec EXCEPT !.own = "sought"] ELSE genRec
    /\ UNCHANGED <<info, info_lock, synchronised, seek_state, handles, chan, disposed,
                   usiArg, is_live, hnow, hpos, clockTime, calls>>

\* bus_cb has returned: async-done is queued for the bus watch, and the
\* pipeline goes on to PLAYING when that is its target
StreamPost ==
    /\ pc["stream"] = "ad_post"
    /\ Room(2)
    /\ bus' = IF pipe.target = "PLAYING"
              THEN bus \o <<hmsg["stream"],
                             StateChangedMsg(TRUE, "PAUSED", "PLAYING")>>
              ELSE Append(bus, hmsg["stream"])
    /\ pipe' = [pipe EXCEPT !.pending = "none", !.seekPos = NoTime,
                            !.cur = IF pipe.target = "PLAYING" THEN "PLAYING" ELSE @]
    /\ hmsg' = [hmsg EXCEPT !["stream"] = NoMsg]
    /\ hpos' = [hpos EXCEPT !["stream"] = NoTime]
    /\ pc' = [pc EXCEPT !["stream"] = "idle"]
    /\ UNCHANGED <<info, info_lock, synchronised, seek_state, handles, chan, disposed,
                   usiArg, is_live, hnow, clockTime, genRec, calls>>

\* the reference clock advances
ClockTick ==
    /\ ~disposed
    /\ clockTime < Len(ClockTimes)
    /\ clockTime' = clockTime + 1
    /\ UNCHANGED <<info, info_lock, synchronised, seek_state, handles, chan, disposed,
                   pc, usiArg, is_live, hmsg, hnow, hpos, pipe, bus, genRec, calls>>

----------------------------------------------------------------------------

Next ==
    \/ Start
    \/ Stop
    \/ Dispose
    \/ \E d \in Descriptors : SyncInfoNotify(d)
    \/ UsiLock
    \/ UsiNull
    \/ UsiReplace
    \/ \E t \in {"ctl", "main"} : Unlock(t)
    \/ \E t \in {"ctl", "main"} : UpSetUri(t)
    \/ \E t \in {"ctl", "main"} : UpPaused(t)
    \/ \E t \in {"ctl", "main"} : UpClassify(t)
    \/ \E t \in {"ctl", "main"} : UpPlaying(t)
    \/ \E b \in BOOLEAN : MainElement(b)
    \/ ElWait
    \/ ElLock
    \/ MainStateChanged
    \/ ScNow
    \/ ScLock
    \/ ScDecide
    \/ ScFallback
    \/ MainAsyncDone
    \/ \E t \in {"main", "stream"} : AdQuery(t)
    \/ \E t \in {"main", "stream"} : AdSetBaseTime(t)
    \/ \E t \in {"main", "stream"} : AdWrite(t)
    \/ MainEos
    \/ StreamAsyncDone
    \/ StreamPost
    \/ ClockTick

Spec == Init /\ [][Next]_vars

\* Scheduling: each thread that can take a step of the function it is in
\* eventually takes it; the main loop eventually dispatches a queued
\* message; the pipeline eventually completes a preroll it has begun.
CtlSteps ==
    \/ UsiLock \/ UsiNull \/ UsiReplace \/ Unlock("ctl")
    \/ UpSetUri("ctl") \/ UpPaused("ctl") \/ UpClassify("ctl") \/ UpPlaying("ctl")

MainSteps ==
    \/ ElWait \/ ElLock \/ Unlock("main")
    \/ UpSetUri("main") \/ UpPaused("main") \/ UpClassify("main") \/ UpPlaying("main")
    \/ ScNow \/ ScLock \/ ScDecide \/ ScFallback
    \/ AdQuery("main") \/ AdSetBaseTime("main") \/ AdWrite("main")

MainDispatch == MainStateChanged \/ MainAsyncDone

StreamSteps ==
    \/ StreamAsyncDone \/ StreamPost
    \/ AdQuery("stream") \/ AdSetBaseTime("stream") \/ AdWrite("stream")

Fairness ==
    /\ WF_vars(CtlSteps)
    /\ WF_vars(MainSteps)
    /\ SF_vars(MainDispatch)
    /\ WF_vars(StreamSteps)

\* The descriptors the control channel delivers in the behaviours of
\* FairSpec: a first descriptor and one that differs from it in uri.
FairDescriptors ==
    { [uri |-> "a", base_time |-> 1900, latency |-> 10],
      [uri |-> "b", base_time |-> 1900, latency |-> 10] }

\* Next with the control channel delivering FairDescriptors only
FairNext ==
    \/ Start
    \/ Stop
    \/ Dispose
    \/ \E d \in FairDescriptors : SyncInfoNotify(d)
    \/ UsiLock
    \/ UsiNull
    \/ UsiReplace
    \/ \E t \in {"ctl", "main"} : Unlock(t)
    \/ \E t \in {"ctl", "main"} : UpSetUri(t)
    \/ \E t \in {"ctl", "main"} : UpPaused(t)
    \/ \E t \in {"ctl", "main"} : UpClassify(t)
    \/ \E t \in {"ctl", "main"} : UpPlaying(t)
    \/ \E b \in BOOLEAN : MainElement(b)
    \/ ElWait
    \/ ElLock
    \/ MainStateChanged
    \/ ScNow
    \/ ScLock
    \/ ScDecide
    \/ ScFallback
    \/ MainAsyncDone
    \/ \E t \in {"main", "stream"} : AdQuery(t)
    \/ \E t \in {"main", "stream"} : AdSetBaseTime(t)
    \/ \E t \in {"main", "stream"} : AdWrite(t)
    \/ MainEos
    \/ StreamAsyncDone
    \/ StreamPost
    \/ ClockTick

FairSpec == Init /\ [][FairNext]_vars /\ Fairness

----------------------------------------------------------------------------
(* Properties *)

\* C1: a seekable generation whose state-changed-to-playing handler met a
\* drift now - base_time within the tolerance has the pipeline's base time
\* equal to the descriptor's base_time, has issued no seek, and has
\* seek_state DONE_SEEK.
C1_WithinToleranceSetsBaseTime ==
    genRec.kind = "seekable" /\ genRec.drift = "le"
        => /\ pipe.base_time = genRec.base
           /\ genRec.seeks = 0
           /\ seek_state = DONE_SEEK

\* the handler met now = 1920 with base_time 1900 and wrote the base time
C1_Witness ==
    /\ genRec.kind = "seekable" /\ genRec.drift = "le" /\ genRec.own = "direct"
    /\ genRec.base = 1900 /\ pipe.base_time = 1900
    /\ genRec.seeks = 0 /\ seek_state = DONE_SEEK

\* C2: a seekable generation whose state-changed-to-playing handler met a
\* drift above the tolerance and had its seek accepted has asked for the
\* position drift + tolerance, and seek_state is IN_SEEK in every state
\* until the async-done of that seek is handled.
C2_SeekKeepsInSeek ==
    genRec.kind = "seekable" /\ genRec.drift = "gt" /\ genRec.own = "seek"
        => /\ seek_state = IN_SEEK
           /\ pc["main"] = "unlock" /\ hnow # NoTime
                => pipe.seekPos = hnow - genRec.base + DEFAULT_SEEK_TOLERANCE

\* the handler met now = 2050 with base_time 1900 and its seek to 200 was accepted
C2_Witness ==
    /\ genRec.kind = "seekable" /\ genRec.drift = "gt" /\ genRec.own = "seek"
    /\ genRec.base = 1900 /\ pipe.seekPos = 200 /\ pipe.pending = "seek"
    /\ pc["main"] = "unlock" /\ seek_state = IN_SEEK

\* C3: in a seekable generation, when the synchronous async-done handler of
\* a seek issued for a drift above the tolerance, having passed the IN_SEEK
\* test and read the position P, completes, the pipeline's base time is the
\* descriptor's base_time + P and seek_state is DONE_SEEK.
C3_AsyncDoneAddsPosition ==
    [][(/\ genRec.kind = "seekable"
        /\ pipe.pending = "seek"
        /\ pipe.seekPos > 2 * DEFAULT_SEEK_TOLERANCE
        /\ \E i \in DOMAIN ClockTimes :
              pipe.seekPos = ClockTimes[i] - info.base_time + DEFAULT_SEEK_TOLERANCE
        /\ hpos["stream"] # NoTime
        /\ pc["stream"] = "ad_write"
        /\ pc'["stream"] = "ad_post")
          => /\ pipe'.base_time = info.base_time + hpos["stream"]
             /\ seek_state' = DONE_SEEK]_vars

\* the async-done handler of the seek to 200 read 205 and has finished
C3_Witness ==
    /\ genRec.kind = "seekable" /\ genRec.own = "sought"
    /\ pc["stream"] = "ad_post" /\ hpos["stream"] = 205
    /\ pipe.seekPos = 200 /\ pipe.base_time = 2105 /\ seek_state = DONE_SEEK

\* C4: in a generation whose PAUSED request returned NO_PREROLL, seek_state
\* is DONE_SEEK when the PLAYING request is made, and the generation sees no
\* seek request and no base-time write by a handler.
C4_LiveNeverSeeks ==
    genRec.kind = "live"
        => /\ \A t \in {"ctl", "main"} : pc[t] = "up_playing" => seek_state = DONE_SEEK
           /\ genRec.seeks = 0
           /\ genRec.directs = 0
           /\ genRec.fallbacks = 0
           /\ genRec.adWrites = 0

\* a live generation has reached PLAYING
C4_Witness ==
    /\ genRec.kind = "live" /\ pipe.cur = "PLAYING" /\ seek_state = DONE_SEEK
    /\ genRec.seeks = 0 /\ genRec.directs = 0

\* C5: an update whose descriptor has the stored uri and base_time goes from
\* the lock to the unlock and on to the return: it makes no pipeline request
\* and leaves the stored descriptor, seek_state, synchronised, the pipeline
\* and its bus as they were.
C5_UnchangedDescriptorDropped ==
    [][(/\ \/ /\ pc["ctl"] = "usi_lock"
              /\ info # NoInfo
              /\ usiArg.uri = info.uri
              /\ usiArg.base_time = info.base_time
           \/ /\ pc["ctl"] = "unlock"
              /\ calls = <<>>
        /\ pc'["ctl"] # pc["ctl"])
          => /\ pc'["ctl"] = IF pc["ctl"] = "usi_lock" THEN "unlock" ELSE "idle"
             /\ calls' = <<>>
             /\ info' = info
             /\ seek_state' = seek_state
             /\ synchronised' = synchronised
             /\ pipe' = pipe
             /\ bus' = bus]_vars

\* C5: update_sync_info is about to return having dropped a descriptor that
\* differs from the stored one in latency only, with the pipeline playing.
C5_Witness ==
    /\ pc["ctl"] = "unlock"
    /\ calls = <<>>
    /\ usiArg.uri = info.uri
    /\ usiArg.base_time = info.base_time
    /\ usiArg.latency # info.latency
    /\ pipe.cur = "PLAYING"

\* the requests of a re-application, in the order update_sync_info and
\* update_pipeline make them
ReapplyOrder == <<"NULL", "replace", "uri", "PAUSED", "classify", "PLAYING">>

\* C6: an update with a changed uri or base_time requests NULL first, then
\* replaces the stored descriptor, then sets uri and latency and requests
\* PAUSED and PLAYING; before the NULL request the stored descriptor is the
\* old one and the pipeline does not have the new uri, and the pipeline is
\* in NULL when the descriptor is replaced and when the uri is set.
C6_NullBeforeReplaceBeforeApply ==
    /\ info_lock = "ctl" /\ calls # <<>>
         => calls = SubSeq(ReapplyOrder, 1, Len(calls))
    /\ pc["ctl"] \in {"usi_replace", "up_seturi", "up_paused", "up_classify",
                      "up_playing"}
         => calls # <<>>
    /\ pc["ctl"] \in {"usi_null", "usi_replace"}
         => /\ info.uri # usiArg.uri \/ info.base_time # usiArg.base_time
            /\ info.uri # usiArg.uri => pipe.uri # usiArg.uri
    /\ pc["ctl"] \in {"usi_replace", "up_seturi"} => pipe.cur = "NULL"
    /\ pc["ctl"] = "up_seturi" => info = usiArg

\* C6: a re-application with a changed uri has made all its requests.
C6_Witness ==
    /\ pc["ctl"] = "unlock"
    /\ calls = ReapplyOrder
    /\ info = usiArg
    /\ pipe.uri = "b"

\* C7: when the seek of the state-changed handler is rejected, no
\* synchronous async-done handler has read IN_SEEK, and once the handler
\* has fallen back the pipeline's base time is the descriptor's base_time
\* and seek_state is DONE_SEEK.
C7_RejectedSeekFallsBack ==
    genRec.kind = "seekable" /\ genRec.drift = "gt" /\ genRec.own = "rejected"
        => /\ pc["stream"] \notin {"ad_query", "ad_lock", "ad_write"}
           /\ pc["main"] # "sc_fallback"
                => pipe.base_time = genRec.base /\ seek_state = DONE_SEEK

\* the rejected seek has been followed by the fallback write
C7_Witness ==
    /\ genRec.kind = "seekable" /\ genRec.drift = "gt" /\ genRec.own = "rejected"
    /\ pc["main"] = "unlock" /\ genRec.fallbacks = 1
    /\ pipe.base_time = genRec.base /\ seek_state = DONE_SEEK

\* C8: in a generation whose PAUSED request returned FAILURE, seek_state is
\* NEED_SEEK when update_pipeline goes on, PLAYING is not requested, and no
\* seek decision fires.
C8_FailedPausedStalls ==
    genRec.kind = "failed"
        => /\ \A t \in {"ctl", "main"} : pc[t] = "up_playing" => seek_state = NEED_SEEK
           /\ \A i \in DOMAIN calls : calls[i] # "PLAYING"
           /\ genRec.seeks = 0
           /\ genRec.directs = 0

\* the PAUSED request has failed and update_pipeline has returned
C8_Witness ==
    /\ genRec.kind = "failed"
    /\ \E t \in {"ctl", "main"} : pc[t] = "unlock" /\ info_lock = t
    /\ calls # <<>>

\* C9: the pipeline has been given a uri and asked for PAUSED or PLAYING only
\* if gst_clock_wait_for_sync has returned TRUE.
C9_AppliedOnlyWhenSynchronised ==
    pipe.uri # "" \/ genRec.kind # "none"
        => synchronised /\ pc["main"] # "el_wait"

\* a changed descriptor has been stored before any synchronisation
C9_Witness ==
    /\ ~synchronised /\ pc["ctl"] = "up_seturi" /\ info = usiArg

\* C10: once stop has returned, the client holds neither its clock nor its
\* pipeline.
C10_StopReleasesHandles ==
    chan = "stopped" => ~handles.clock /\ ~handles.pipeline

\* stop has returned after a descriptor created the clock
C10_Witness ==
    /\ chan = "stopped" /\ ~disposed /\ info # NoInfo

\* C11: an async-done handler that passed the IN_SEEK test and whose position
\* query fails goes straight to the write of DONE_SEEK: it makes no
\* set_base_time call, leaves the pipeline's base time as it is, and
\* seek_state is DONE_SEEK when it has finished.
C11_NoPositionStillDone ==
    [][\A t \in {"main", "stream"} :
         /\ (pc[t] = "ad_query" /\ pc'[t] # "ad_query" /\ hpos'[t] = NoTime)
               => pc'[t] = "ad_write" /\ pipe' = pipe
         /\ (pc[t] = "ad_write" /\ hpos[t] = NoTime /\ pc'[t] # "ad_write")
               => seek_state' = DONE_SEEK /\ pipe'.base_time = pipe.base_time]_vars

\* the async-done handler of an accepted seek found no position and has
\* finished: DONE_SEEK, and the base time was never set
C11_Witness ==
    /\ genRec.kind = "seekable" /\ genRec.own = "sought"
    /\ pc["stream"] = "ad_post" /\ hpos["stream"] = NoTime
    /\ seek_state = DONE_SEEK /\ pipe.base_time = NoTime /\ genRec.adWrites = 0

\* C12: only the synchronous delivery of the async-done of a seek passes the
\* IN_SEEK test: the bus watch's delivery of an async-done never goes on to
\* the position query, the base-time write or the write of DONE_SEEK, and
\* the synchronous delivery goes on to them only when the async-done is the
\* completion of a seek, not of the preroll of the PAUSED request.
C12_OnlySyncSeekCompletion ==
    /\ pc["main"] \notin {"ad_query", "ad_lock", "ad_write"}
    /\ pc["stream"] \in {"ad_query", "ad_lock", "ad_write"} => pipe.pending = "seek"

\* the synchronous delivery of the async-done of the generation's own seek
\* has set the base time
C12_Witness ==
    /\ genRec.kind = "seekable" /\ genRec.own = "sought"
    /\ pc["stream"] = "ad_write" /\ pipe.pending = "seek" /\ pipe.seekPos = 200
    /\ hpos["stream"] = 205 /\ genRec.adWrites = 1

\* C13: a state-changed or async-done handler whose message the pipeline
\* posted before the current generation began changes neither seek_state nor
\* the pipeline (its base time, its seek position) in the current generation.
C13_HandlersKeepTheirGeneration ==
    [][\A t \in {"main", "stream"} :
         (/\ hmsg[t].g = "old"
          /\ pc[t] \in {"sc_now", "sc_lock", "sc_decide", "sc_fallback",
                        "ad_query", "ad_lock", "ad_write"}
          /\ pc'[t] # pc[t])
           => seek_state' = seek_state /\ pipe' = pipe]_vars

\* a state-changed handler that passed its tests before a re-application is
\* waiting for info_lock after it
C13_Witness ==
    /\ hmsg["main"].type = "state-changed" /\ hmsg["main"].g = "old"
    /\ pc["main"] = "sc_lock" /\ pc["ctl"] = "idle" /\ genRec.kind = "seekable"

\* C14: the synchronous async-done handler never waits for info_lock while
\* the thread holding it is inside a pipeline call that waits for the
\* pipeline (the NULL, PAUSED and PLAYING requests, the flushing seek).
C14_AsyncDoneNeverBlocksBehindEngineCall ==
    pc["stream"] = "ad_lock" /\ info_lock # "free"
        => /\ pc[info_lock] \notin {"usi_null", "up_paused", "up_playing"}
           /\ ~(pc[info_lock] = "sc_decide" /\ NeedsSeek(hnow, info.base_time))

\* the deadlock: update_sync_info holds info_lock inside the NULL request,
\* which waits for the streaming thread, which waits for info_lock
C14_Witness ==
    /\ genRec.kind = "seekable" /\ genRec.own = "sought" /\ pipe.seekPos = 200
    /\ pc["stream"] = "ad_lock" /\ hpos["stream"] # NoTime
    /\ info_lock = "ctl" /\ pc["ctl"] = "usi_null"
    /\ ~ENABLED UsiNull /\ ~ENABLED AdSetBaseTime("stream")

\* C15: every change of seek_state is either the classification write of
\* update_pipeline or one step forward, NEED_SEEK to IN_SEEK or IN_SEEK to
\* DONE_SEEK.
C15_SeekStateMonotone ==
    [][seek_state' # seek_state
         => \/ \E t \in {"ctl", "main"} :
                 pc[t] = "up_classify" /\ pc'[t] = "up_playing"
            \/ seek_state' = seek_state + 1]_vars

\* a generation has gone through NEED_SEEK, IN_SEEK and DONE_SEEK by its own
\* seek and async-done
C15_Witness ==
    /\ genRec.kind = "seekable" /\ genRec.own = "sought" /\ genRec.seeks = 1
    /\ genRec.adWrites = 1 /\ seek_state = DONE_SEEK /\ pc["stream"] = "idle"

\* C16: the state-changed handler goes past its tests (to the clock reading,
\* the write of IN_SEEK, the seek or the base-time write) only for a message
\* of the client's own pipeline whose new state is PLAYING.
C16_OnlyPlayingTriggers ==
    pc["main"] \in {"sc_now", "sc_lock", "sc_decide", "sc_fallback"}
        => hmsg["main"].own /\ hmsg["main"].new = "PLAYING"

\* the handler has gone past its tests for the own PAUSED to PLAYING message
C16_Witness ==
    /\ pc["main"] = "sc_lock" /\ hmsg["main"].own /\ hmsg["main"].g = "cur"
    /\ hmsg["main"].old = "PAUSED" /\ hmsg["main"].new = "PLAYING"
    /\ seek_state = IN_SEEK

\* C17: when the state-changed handler decides with a clock reading earlier
\* than the descriptor's base_time, it issues no seek: it sets the
\* pipeline's base time to base_time and seek_state to DONE_SEEK.
C17_FutureBaseTimeNoSeek ==
    [][(/\ pc["main"] = "sc_decide"
        /\ hnow < info.base_time
        /\ pc'["main"] # "sc_decide")
          => /\ pc'["main"] = "unlock"
             /\ pipe' = set_base_time(pipe, info.base_time)
             /\ seek_state' = DONE_SEEK]_vars

\* the handler is deciding for now = 1920 and base_time 2000
C17_Witness ==
    /\ pc["main"] = "sc_decide" /\ hmsg["main"].g = "cur"
    /\ hmsg["main"].new = "PLAYING" /\ genRec.kind = "seekable"
    /\ hnow = 1920 /\ info.base_time = 2000

\* C18: a generation sees at most one decision of the state-changed
\* handler: at most one seek request, and never both a seek request and a
\* direct base-time write, nor two direct writes.
C18_AtMostOneSeekDecision ==
    genRec.seeks + genRec.directs <= 1

\* the one decision of a generation was a seek, and the state-changed
\* message that follows the seek has been handled without a second one
C18_Witness ==
    /\ genRec.kind = "seekable" /\ genRec.own = "sought"
    /\ genRec.seeks = 1 /\ genRec.directs = 0
    /\ pipe.cur = "PLAYING" /\ pipe.pending = "none" /\ bus = <<>>
    /\ \A t \in Threads : pc[t] = "idle"

\* C19 as stated: once self->synchronised is TRUE it stays TRUE, and no
\* statistics message handled while it is TRUE starts a wait.
C19_SynchronisedLatched ==
    [][synchronised
         => /\ synchronised'
            /\ ~(pc["main"] = "idle" /\ pc'["main"] = "el_wait")]_vars

\* C19, amended: once gst_clock_wait_for_sync has returned TRUE,
\* self->synchronised stays TRUE, and no later statistics message starts a
\* wait or a second clock-triggered update_pipeline; before that, the TRUE
\* read from a statistics message is reset by a timeout of the wait.
C19_LatchedAfterWait ==
    [][synchronised /\ pc["main"] # "el_wait"
         => /\ synchronised'
            /\ pc'["main"] # "el_wait"
            /\ pc'["main"] = "el_lock" => pc["main"] = "el_lock"]_vars

\* the wait has succeeded, the descriptor is playing, and the bus watch is
\* free to handle a further statistics message
C19_Witness ==
    /\ synchronised /\ pc["main"] = "idle" /\ handles.clock /\ ~disposed
    /\ genRec.kind = "seekable" /\ pipe.cur = "PLAYING"

\* the pipeline's own PAUSED to PLAYING message of the current generation is
\* queued for the bus watch
PlayingDelivered ==
    \E i \in DOMAIN bus :
        /\ bus[i].type = "state-changed" /\ bus[i].own /\ bus[i].g = "cur"
        /\ bus[i].old = "PAUSED" /\ bus[i].new = "PLAYING"

SettledGeneration ==
    /\ chan = "stopped" /\ pc["ctl"] = "idle" /\ ~disposed
    /\ synchronised
    /\ pc["main"] \notin {"el_wait", "el_lock", "up_seturi", "up_paused",
                           "up_classify", "up_playing"}
    /\ genRec.kind = "seekable" /\ PlayingDelivered

====
